---------------------------- MODULE Spec2Model ----------------------------
(***************************************************************************)
(* Model of the EnumFromVariant derive macro (src/src/lib.rs).             *)
(*                                                                         *)
(* The macro is a pure pass over one declaration.  The state machine below *)
(* walks it in the order the code does: derive() checks the declaration    *)
(* kind, map_enum_data_from_variant() visits the variants one by one and   *)
(* pushes one MapEnumData per nested meta of the attribute get_attributes()*)
(* returns, then the construct_meta closure turns every MapEnumData into   *)
(* zero or one item of the emitted token stream.                           *)
(*                                                                         *)
(* Identifiers are strings, the i-th variant's identifier is its index i,  *)
(* and a span is the place where a nested meta is written: variant v,      *)
(* attribute a of that variant, position m inside the attribute's list.    *)
(* Target literals range over the empty string and identifier-like names   *)
(* (the names the conversion targets are written with).                    *)
(***************************************************************************)
EXTENDS Integers, Sequences, FiniteSets, TLC

(* ------------------------------ bounds --------------------------------- *)
MaxVariants == 2
MaxAttrs == 2
MaxTargets == 2
MaxFields == 2

(* ------------------------- the input syntax tree ----------------------- *)
Marker == "enum_from_variant"

TargetNames == {"NetworkError", "DatabaseError"}

LitStr(s) == [kind |-> "LitStr", value |-> s]

\* syn::NestedMeta: a string literal, or anything else (here a nested path).
StrMetas == {LitStr(s) : s \in TargetNames \cup {""}}
NestedMetas == StrMetas \cup {[kind |-> "Meta", value |-> "skip"]}

\* syn::Type of a field: a path type with its segments, or a non-path type.
Types ==
  { [kind |-> "Path", segments |-> <<"String">>],
    [kind |-> "Path", segments |-> <<"DatabaseError">>],
    [kind |-> "Path", segments |-> <<"std", "string", "String">>],
    [kind |-> "Reference", segments |-> <<>>] }

\* syn::Fields: Unit, Named { .. } (its fields are never read), Unnamed ( .. ).
AllFields ==
  { [kind |-> "Unit", tys |-> <<>>], [kind |-> "Named", tys |-> <<>>] }
  \cup { [kind |-> "Unnamed", tys |-> t] :
           t \in UNION { [1..n -> Types] : n \in 0..MaxFields } }

StringField == [kind |-> "Unnamed", tys |-> <<[kind |-> "Path", segments |-> <<"String">>]>>]

MetaListsOfLen(S, n) == [1..n -> S]
MetaLists(S, n) == UNION { MetaListsOfLen(S, k) : k \in 0..n }

\* syn::Attribute by what parse_meta() makes of it.
ListAttr(name, nested) == [name |-> name, shape |-> "List", nested |-> nested]
NonListAttrs ==
  { [name |-> Marker, shape |-> "Path", nested |-> <<>>],       \* #[enum_from_variant]
    [name |-> Marker, shape |-> "NameValue", nested |-> <<>>],  \* #[enum_from_variant = "X"]
    [name |-> "doc", shape |-> "NameValue", nested |-> <<>>],   \* /// a doc comment
    [name |-> "error", shape |-> "Tokens", nested |-> <<>>] }   \* not a meta at all
AttrsWith(k) ==
  { ListAttr(n, l) : n \in {Marker, "serde"}, l \in MetaListsOfLen(NestedMetas, k) }
  \cup (IF k = 0 THEN NonListAttrs ELSE {})

\* Attribute lists of exactly n attributes holding exactly k nested metas in all.
RECURSIVE AttrSeqs(_, _)
AttrSeqs(n, k) ==
  IF n = 0
  THEN IF k = 0 THEN {<<>>} ELSE {}
  ELSE UNION { LET rest == AttrSeqs(n - 1, k - c)
               IN { <<a>> \o s : a \in AttrsWith(c), s \in rest } : c \in 0..k }

Variant(f, as) == [fields |-> f, attrs |-> as]
Enum(vs) == [kind |-> "Enum", variants |-> vs]

\* One variant of every payload shape, carrying one marker attribute with one meta.
PayloadInputs ==
  { Enum(<<Variant(f, <<ListAttr(Marker, <<m>>)>>)>>) : f \in AllFields, m \in NestedMetas }

\* One String variant carrying a list of attributes.
AttrInput(as) == Enum(<<Variant(StringField, as)>>)

\* Several String variants, each bare, with a bare marker, or with one marker list
\* of empty and non-empty string literals.
SiblingMetas == {LitStr(""), LitStr("NetworkError")}
SiblingVariants ==
  { Variant(StringField, <<>>),
    Variant(StringField, <<[name |-> Marker, shape |-> "Path", nested |-> <<>>]>>) }
  \cup { Variant(StringField, <<ListAttr(Marker, l)>>) : l \in MetaLists(SiblingMetas, MaxTargets) }
SiblingInputs ==
  { Enum(vs) : vs \in UNION { [1..n -> SiblingVariants] : n \in 0..MaxVariants } }

NonEnumInputs == { [kind |-> k, variants |-> <<>>] : k \in {"Struct", "Union"} }

(* ------------------------------ the code ------------------------------- *)
None == [some |-> FALSE, ident |-> ""]
Some(x) == [some |-> TRUE, ident |-> x]

parse_meta_ok(attribute) == attribute.shape \in {"List", "Path", "NameValue"}

\* A mutation of get_variant_unnamed_ident: the last path segment is taken.
get_variant_unnamed_ident_LastSegment(fields) ==
  IF fields.kind = "Unnamed" /\ Len(fields.tys) > 0
  THEN LET ty == fields.tys[1]
       IN IF ty.kind = "Path" /\ Len(ty.segments) > 0
          THEN Some(ty.segments[Len(ty.segments)])
          ELSE None
  ELSE None

get_variant_unnamed_ident(fields) ==
  IF fields.kind = "Unnamed" /\ Len(fields.tys) > 0
  THEN LET ty == fields.tys[1]
       IN IF ty.kind = "Path" /\ Len(ty.segments) > 0
          THEN Some(ty.segments[1])
          ELSE None
  ELSE None

get_inner_ident_type(ident) ==
  IF ident.some
  THEN IF ident.ident = "String" THEN "String" ELSE "Named"
  ELSE "Unnamed"

Ok(d) == [ok |-> TRUE, error |-> "", data |-> d]
Err(e) == [ok |-> FALSE, error |-> e, data |-> <<>>]

\* MapEnumDataPunctuated; every nested meta keeps the span it was written at.
Punctuated(variant, vi, a) ==
  [ variant_ident |-> vi,
    nested_meta |-> [m \in 1..Len(variant.attrs[a].nested) |->
                       [meta |-> variant.attrs[a].nested[m],
                        span |-> [v |-> vi, a |-> a, m |-> m]]],
    inner_ident |-> get_variant_unnamed_ident(variant.fields) ]

RECURSIVE get_attributes_from(_, _, _)
get_attributes_from(variant, vi, a) ==
  IF a > Len(variant.attrs)
  THEN Err("Operation Error.")
  ELSE IF parse_meta_ok(variant.attrs[a])
       THEN IF variant.attrs[a].shape = "List"
            THEN Ok(Punctuated(variant, vi, a))
            ELSE Err("expected #[enum_from_variant(..)]")
       ELSE get_attributes_from(variant, vi, a + 1)

get_attributes(variant, vi) == get_attributes_from(variant, vi, 1)

MapEnumData(attr, k) ==
  [ variant_ident |-> attr.variant_ident,
    meta |-> attr.nested_meta[k],
    inner_ident |-> attr.inner_ident ]

Pushed(attr) == [k \in 1..Len(attr.nested_meta) |-> MapEnumData(attr, k)]

\* A mutation of MapVariant: the new entries go in front of meta_vec.
MapVariant_Prepend(meta_vec, variant, vi) ==
  LET r == get_attributes(variant, vi)
  IN IF r.ok THEN Pushed(r.data) \o meta_vec ELSE meta_vec

\* One pass of the loop body of map_enum_data_from_variant.
MapVariant(meta_vec, variant, vi) ==
  LET r == get_attributes(variant, vi)
  IN IF r.ok THEN meta_vec \o Pushed(r.data) ELSE meta_vec

\* compile_error!(..) spanned at the literal (the message without its backquotes).
CompileError(span) ==
  [kind |-> "compile_error", msg |-> "Expected this to take a type", span |-> span,
   from |-> "", variant |-> 0, body |-> ""]
Impl(from, span, variant, body) ==
  [kind |-> "impl", msg |-> "", span |-> span, from |-> from, variant |-> variant, body |-> body]

\* A mutation of construct_meta: the Named arm is missing.
construct_meta_AlwaysToString(m) ==
  IF m.meta.meta.kind = "LitStr"
  THEN IF m.meta.meta.value = ""
       THEN <<CompileError(m.meta.span)>>
       ELSE <<Impl(m.meta.meta.value, m.meta.span, m.variant_ident, "err.to_string()")>>
  ELSE <<>>

\* The closure of derive(): the items one MapEnumData adds to the output.
construct_meta(m) ==
  IF m.meta.meta.kind = "LitStr"
  THEN IF m.meta.meta.value = ""
       THEN <<CompileError(m.meta.span)>>
       ELSE IF get_inner_ident_type(m.inner_ident) = "Named"
            THEN <<Impl(m.meta.meta.value, m.meta.span, m.variant_ident, "err")>>
            ELSE <<Impl(m.meta.meta.value, m.meta.span, m.variant_ident, "err.to_string()")>>
  ELSE <<>>

(* ---------------------------- state machine ---------------------------- *)
VARIABLES ast, pc, i, enum_data, j, tokens

vars == <<ast, pc, i, enum_data, j, tokens>>

\* The declaration handed to derive: a struct or union, or an enum with one
\* variant of any payload shape, with one variant carrying at most MaxAttrs
\* attributes and MaxTargets nested metas, or with at most MaxVariants siblings.
Init ==
  /\ \/ ast \in NonEnumInputs
     \/ ast \in PayloadInputs
     \/ \E n \in 1..MaxAttrs : \E k \in 0..MaxTargets : \E c \in 0..k :
          \E a \in AttrsWith(c) : \E s \in AttrSeqs(n - 1, k - c) :
            ast = AttrInput(<<a>> \o s)
     \/ ast \in SiblingInputs
  /\ pc = "derive"
  /\ i = 0
  /\ enum_data = <<>>
  /\ j = 0
  /\ tokens = <<>>

\* A mutation of DerivePanic: the declaration kind is not checked.
DerivePanic_NoCheck ==
  /\ pc = "derive"
  /\ ast.kind # "Enum"
  /\ pc' = "map_enum_data"
  /\ i' = 1
  /\ UNCHANGED <<ast, enum_data, j, tokens>>

\* derive(): the declaration is not an enum, so derive panics.
DerivePanic ==
  /\ pc = "derive"
  /\ ast.kind # "Enum"
  /\ pc' = "panicked"
  /\ UNCHANGED <<ast, i, enum_data, j, tokens>>

\* derive(): the declaration is an enum, its variants go to map_enum_data_from_variant.
DeriveEnum ==
  /\ pc = "derive"
  /\ ast.kind = "Enum"
  /\ pc' = "map_enum_data"
  /\ i' = 1
  /\ UNCHANGED <<ast, enum_data, j, tokens>>

\* map_enum_data_from_variant: one variant; an Err of get_attributes is dropped.
MapNextVariant ==
  /\ pc = "map_enum_data"
  /\ i <= Len(ast.variants)
  /\ enum_data' = MapVariant(enum_data, ast.variants[i], i)
  /\ i' = i + 1
  /\ UNCHANGED <<ast, pc, j, tokens>>

\* map_enum_data_from_variant returns meta_vec.
MapReturn ==
  /\ pc = "map_enum_data"
  /\ i > Len(ast.variants)
  /\ pc' = "construct_meta"
  /\ j' = 1
  /\ UNCHANGED <<ast, i, enum_data, tokens>>

\* quote!(#(#construct_meta)*): the next MapEnumData's item is appended.
ConstructNext ==
  /\ pc = "construct_meta"
  /\ j <= Len(enum_data)
  /\ tokens' = tokens \o construct_meta(enum_data[j])
  /\ j' = j + 1
  /\ UNCHANGED <<ast, pc, i, enum_data>>

\* derive() returns the token stream.
Emit ==
  /\ pc = "construct_meta"
  /\ j > Len(enum_data)
  /\ pc' = "done"
  /\ UNCHANGED <<ast, i, enum_data, j, tokens>>

Next ==
  \/ DerivePanic
  \/ DeriveEnum
  \/ MapNextVariant
  \/ MapReturn
  \/ ConstructNext
  \/ Emit

Spec == Init /\ [][Next]_vars

TypeOK ==
  /\ ast.kind \in {"Enum", "Struct", "Union"}
  /\ pc \in {"derive", "panicked", "map_enum_data", "construct_meta", "done"}
  /\ i \in 0..(Len(ast.variants) + 1)
  /\ j \in 0..(Len(enum_data) + 1)

(* ------------------------- vocabulary of the claims -------------------- *)
Done == pc = "done"

VariantIds == 1..Len(ast.variants)
AttrIds(v) == 1..Len(ast.variants[v].attrs)
MetaIds(v, a) == 1..Len(ast.variants[v].attrs[a].nested)

IsMarkerList(attr) == attr.name = Marker /\ attr.shape = "List"
IsMalformedMarker(attr) == attr.name = Marker /\ attr.shape \in {"Path", "NameValue"}
IsValidTarget(meta) == meta.kind = "LitStr" /\ meta.value # ""
IsEmptyTarget(meta) == meta.kind = "LitStr" /\ meta.value = ""

MarkerAttrIds(v) == {a \in AttrIds(v) : ast.variants[v].attrs[a].name = Marker}
FirstMarker(v) == CHOOSE a \in MarkerAttrIds(v) : \A b \in MarkerAttrIds(v) : a <= b

ImplIds == {t \in DOMAIN tokens : tokens[t].kind = "impl"}
Span(v, a, m) == [v |-> v, a |-> a, m |-> m]

\* The payload classification of variant v of the declaration.
Payload(v) == get_inner_ident_type(get_variant_unnamed_ident(ast.variants[v].fields))

\* span s is written before span t
Before(s, t) ==
  \/ s.v < t.v
  \/ s.v = t.v /\ s.a < t.a
  \/ s.v = t.v /\ s.a = t.a /\ s.m < t.m

C3_NonEnumFailsFirst ==
  ast.kind # "Enum" =>
    /\ pc \in {"derive", "panicked"}
    /\ i = 0 /\ j = 0
    /\ enum_data = <<>>
    /\ tokens = <<>>

C3_Witness == ast.kind = "Struct" /\ pc = "panicked"

(* ------------------------------- C9 ------------------------------------ *)
\* C9: the rules of the output stand in declaration order: a rule written
\* earlier (earlier variant, or earlier target of the same variant) is emitted
\* earlier, during the pass and when derive returns.
C9_DeclarationOrder ==
  \A s \in ImplIds : \A t \in ImplIds :
    s < t => Before(tokens[s].span, tokens[t].span)

\* Three rules: two targets of one variant, then a target of a later variant.
C9_Witness ==
  /\ Done
  /\ \E s \in ImplIds : \E t \in ImplIds : \E u \in ImplIds :
       /\ s < t /\ t < u
       /\ tokens[s].variant = tokens[t].variant
       /\ tokens[t].variant < tokens[u].variant

(* ------------------------------- C10 ----------------------------------- *)
\* The classification the extractor stored with directive k.
Classified(k) == get_inner_ident_type(enum_data[k].inner_ident)
FieldsOf(k) == ast.variants[enum_data[k].variant_ident].fields

ExactlyOneStringLike(f) ==
  /\ f.kind = "Unnamed" /\ Len(f.tys) = 1
  /\ f.tys[1].kind = "Path" /\ f.tys[1].segments[1] = "String"
ExactlyOneDirect(f) ==
  /\ f.kind = "Unnamed" /\ Len(f.tys) = 1
  /\ f.tys[1].kind = "Path" /\ f.tys[1].segments[1] # "String"

\* C10 as stated: string-like exactly when the variant has exactly one unnamed
\* field whose type's first path segment is String, direct wrapped value exactly
\* when it has exactly one unnamed field of another path type, no inner value
\* when it has no unnamed field.
C10_ExactlyOneField ==
  \A k \in DOMAIN enum_data :
    /\ Classified(k) = "String" <=> ExactlyOneStringLike(FieldsOf(k))
    /\ Classified(k) = "Named" <=> ExactlyOneDirect(FieldsOf(k))
    /\ FieldsOf(k).kind # "Unnamed" => Classified(k) = "Unnamed"

FirstFieldStringLike(f) ==
  /\ f.kind = "Unnamed" /\ Len(f.tys) >= 1
  /\ f.tys[1].kind = "Path" /\ f.tys[1].segments[1] = "String"
FirstFieldDirect(f) ==
  /\ f.kind = "Unnamed" /\ Len(f.tys) >= 1
  /\ f.tys[1].kind = "Path" /\ f.tys[1].segments[1] # "String"

\* C10 amended: the classification is that of the FIRST unnamed field, however
\* many follow: string-like exactly when the first unnamed field's type is a
\* path whose first segment is String, direct wrapped value exactly when it is
\* a path with another first segment (std::string::String among them), and no
\* inner value in every other case (unit, named fields, empty tuple, first
\* field of a non-path type).
C10_FirstFieldDecides ==
  \A k \in DOMAIN enum_data :
    /\ Classified(k) = "String" <=> FirstFieldStringLike(FieldsOf(k))
    /\ Classified(k) = "Named" <=> FirstFieldDirect(FieldsOf(k))
    /\ Classified(k) = "Unnamed" <=>
         ~FirstFieldStringLike(FieldsOf(k)) /\ ~FirstFieldDirect(FieldsOf(k))

\* A two-field tuple variant classified string-like from its first field.
C10_Witness ==
  \E k \in DOMAIN enum_data :
    /\ Len(FieldsOf(k).tys) = 2
    /\ FieldsOf(k).tys[1].segments = <<"String">>
    /\ Classified(k) = "String"

(* ------------------------------- C2 ------------------------------------ *)
ValidTargetsOf(v) ==
  {<<a, m>> \in UNION {{<<a, m>> : m \in MetaIds(v, a)} : a \in AttrIds(v)} :
     IsValidTarget(ast.variants[v].attrs[a].nested[m])}
RulesInto(v) == {t \in ImplIds : tokens[t].variant = v}

\* C2: when derive returns, a variant all of whose attributes are instances
\* of the marker list has as many rules mapping into it as it has valid targets
\* over all those instances.
C2_OneRulePerTarget ==
  Done =>
    \A v \in VariantIds :
      (\A a \in AttrIds(v) : IsMarkerList(ast.variants[v].attrs[a])) =>
        Cardinality(RulesInto(v)) = Cardinality(ValidTargetsOf(v))

(* ------------------------------- C4 ------------------------------------ *)
\* C4: when derive returns, every empty string literal of a variant whose
\* only marker attribute is a marker list has its compile_error in the output,
\* spanned at that literal.
C4_EmptyTargetReported ==
  Done =>
    \A v \in VariantIds : \A a \in AttrIds(v) :
      (IsMarkerList(ast.variants[v].attrs[a]) /\ MarkerAttrIds(v) = {a}) =>
        \A m \in MetaIds(v, a) :
          IsEmptyTarget(ast.variants[v].attrs[a].nested[m]) =>
            \E t \in DOMAIN tokens : tokens[t] = CompileError(Span(v, a, m))

(* ------------------------------- C5 ------------------------------------ *)
HasMalformedMarker ==
  \E v \in VariantIds : \E a \in AttrIds(v) : IsMalformedMarker(ast.variants[v].attrs[a])

\* C5: derive never returns normally from an enum with a malformed marker
\* attribute without an error naming the expected form in its output.
C5_MalformedAttributeReported ==
  Done /\ HasMalformedMarker =>
    \E t \in DOMAIN tokens : tokens[t].msg = "expected #[enum_from_variant(..)]"

(* ------------------------------- C6 ------------------------------------ *)
HasMarkerList ==
  \E v \in VariantIds : \E a \in AttrIds(v) : IsMarkerList(ast.variants[v].attrs[a])

\* C6: derive never completes successfully for an enum in which no variant
\* carries a parsed marker list.
C6_NoAttributeFails == Done => HasMarkerList

(* ------------------------------- C7 ------------------------------------ *)
HasEmptyTarget ==
  \E v \in VariantIds : \E a \in AttrIds(v) :
    /\ IsMarkerList(ast.variants[v].attrs[a])
    /\ \E m \in MetaIds(v, a) : IsEmptyTarget(ast.variants[v].attrs[a].nested[m])

OnlyMarkerLists ==
  \A v \in VariantIds :
    /\ Len(ast.variants[v].attrs) <= 1
    /\ \A a \in AttrIds(v) : IsMarkerList(ast.variants[v].attrs[a])

\* C7: when generation meets an error the output holds no conversion rule;
\* here for the enums whose variants carry at most one attribute, a marker
\* list, where the error is an empty target literal.
C7_NoPartialEmission ==
  Done /\ OnlyMarkerLists /\ HasEmptyTarget => ImplIds = {}

(* ------------------------------- C8 ------------------------------------ *)
\* C8: when derive returns, no item of the output comes from an attribute
\* with another name, and attributes with other names take no rule away: the
\* valid targets of a variant's first marker list all have their rules.
C8_OnlyMarkerRecognised ==
  Done =>
    /\ \A t \in DOMAIN tokens :
         ast.variants[tokens[t].span.v].attrs[tokens[t].span.a].name = Marker
    /\ \A v \in VariantIds :
         (MarkerAttrIds(v) # {} /\ IsMarkerList(ast.variants[v].attrs[FirstMarker(v)])) =>
           \A m \in MetaIds(v, FirstMarker(v)) :
             IsValidTarget(ast.variants[v].attrs[FirstMarker(v)].nested[m]) =>
               \E t \in ImplIds : tokens[t].span = Span(v, FirstMarker(v), m)

=============================================================================
